---- MODULE Spec2Model ----
(***************************************************************************)
(* Model of the URL prober of src/cuban_URL.py (class CubanURLDiscovery):  *)
(* check_url, probe_domain, probe_all_domains and                          *)
(* generate_summary_report.                                                *)
(*                                                                         *)
(* A host is a small integer (the code treats the cleaned domain as an     *)
(* opaque string); a probe path is its index in self.paths; a URL is the   *)
(* record [scheme, host, path] that urljoin builds from them.              *)
(***************************************************************************)
EXTENDS Integers, Sequences, FiniteSets

VARIABLES
    domains,          \* argument of probe_all_domains: the list of hosts
    max_workers,      \* argument of probe_all_domains: the pool size
    dpc,              \* position of the dispatcher thread in probe_all_domains
    submitted,        \* number of executor.submit calls made so far
    fstate,           \* per task: state of its future
    yielded,          \* futures already yielded by as_completed
    consumptions,     \* per task: how many times the loop body ran for it
    discovered_urls,  \* self.discovered_urls
    errors,           \* tasks whose error was printed (line 333)
    propagated,       \* tasks whose exception left probe_all_domains
    tpc,              \* per task: position inside probe_domain
    protocol,         \* per task: loop variable of line 286
    pathIdx,          \* per task: loop variable of line 289 (index in self.paths)
    found_urls,       \* per task: local list of probe_domain
    inflight,         \* per task: URLs of the requests.get calls begun and not
                      \* yet ended
    callreqs,         \* per task: the requests.get calls that ended inside the
                      \* check_url call in progress, each with its outcome
    attempts,         \* per task: log of the check_url calls that returned,
                      \* each with the requests.get calls it made
    sleeps,           \* per task: number of time.sleep calls
    summary           \* <<>>, or <<m>> once generate_summary_report built its two dicts m

vars == <<domains, max_workers, dpc, submitted, fstate, yielded, consumptions,
          discovered_urls, errors, propagated, tpc, protocol, pathIdx,
          found_urls, inflight, callreqs, attempts, sleeps, summary>>

dispatcherVars == <<dpc, submitted, yielded, consumptions, discovered_urls,
                    errors, propagated>>
proberVars == <<tpc, protocol, pathIdx, found_urls, inflight, callreqs, attempts,
                sleeps>>

----------------------------------------------------------------------------
(* Bounds *)

NumPaths == 2        \* length of self.paths in the model
NumHosts == 2        \* longest host list of the dispatch specification
MaxResults == 3      \* longest result collection given to the summary

(* Program constants *)

DefaultMaxWorkers == 10
ServerErrorFloor == 500
StatusOK == 200

----------------------------------------------------------------------------
(* Data *)

Tasks == 1..Len(domains)

\* host of a redirect target that is not in the host list
RedirectHost == NumHosts + 1

StatusCodes == {200, 404, 500}

\* outcome of one requests.get call
Response(s, d) == [kind |-> "response", status_code |-> s, netloc |-> d]
SSLError == [kind |-> "SSLError", status_code |-> 0, netloc |-> 0]
OtherError == [kind |-> "Exception", status_code |-> 0, netloc |-> 0]

AllOutcomes(h) ==
    {Response(s, d) : s \in StatusCodes, d \in {h, RedirectHost}}
        \cup {SSLError, OtherError}

\* the outcomes that decide what a task returns: a recorded result or none
CoarseOutcomes(h) == {Response(200, h), OtherError}

\* urljoin(f"{protocol}://{domain}", path)
urljoin(scheme, host, path) == [scheme |-> scheme, host |-> host, path |-> path]

\* url.replace('https://', 'http://')
replace_scheme(url) == [url EXCEPT !.scheme = "http"]

\* the dict built at lines 248-258 (attributes the claims do not use are left out)
ProbeResult(url, o) ==
    [url |-> url, status_code |-> o.status_code, domain |-> o.netloc]

----------------------------------------------------------------------------
(* check_url, lines 237-266, applied to the outcome o of its requests.get   *)
(* call on url: result is <<>> for None and <<r>> for a dict r; retry is    *)
(* <<u>> when the call goes on with check_url(u) (line 263) and returns     *)
(* what that call returns, and <<>> when the call returns result.           *)

\* faulty variant of check_url: an SSLError is treated like any other exception
check_url_no_fallback(url, o) ==
    IF o.kind = "response"
    THEN [result |-> <<ProbeResult(url, o)>>, retry |-> <<>>]
    ELSE [result |-> <<>>, retry |-> <<>>]

check_url(url, o) ==
    IF o.kind = "response"
    THEN [result |-> <<ProbeResult(url, o)>>, retry |-> <<>>]
    ELSE IF o.kind = "SSLError" /\ url.scheme = "https"
    THEN [result |-> <<>>, retry |-> <<replace_scheme(url)>>]
    ELSE [result |-> <<>>, retry |-> <<>>]

\* faulty variant of Recordable: the status filter is missing
RecordableAnyStatus(result) ==
    result # <<>>

\* line 293: result and result['status_code'] < 500
Recordable(result) ==
    result # <<>> /\ result[1].status_code < ServerErrorFloor

\* faulty variant of EarlyExit: the break of line 298 is missing
EarlyExitNever(proto, result) ==
    FALSE

\* line 297: protocol == 'https' and result['status_code'] == 200
EarlyExit(proto, result) ==
    proto = "https" /\ result[1].status_code = StatusOK

\* faulty variant of SkipHttp: only a 200 lets the HTTP pass be skipped
SkipHttpOn200(found, proto) ==
    proto = "https" /\ \E k \in DOMAIN found : found[k].status_code = StatusOK

\* faulty variant of SkipHttp: the HTTP pass always follows the HTTPS pass
SkipHttpNever(found, proto) ==
    FALSE

\* line 303: found_urls and protocol == 'https'
SkipHttp(found, proto) ==
    found # <<>> /\ proto = "https"

----------------------------------------------------------------------------
(* Initial states *)

InitTasks(doms, w) ==
    /\ domains = doms
    /\ max_workers = w
    /\ dpc = IF doms = <<>> THEN "collect" ELSE "submit"
    /\ submitted = 0
    /\ fstate = [i \in 1..Len(doms) |-> "unsubmitted"]
    /\ yielded = {}
    /\ consumptions = [i \in 1..Len(doms) |-> 0]
    /\ discovered_urls = <<>>
    /\ errors = {}
    /\ propagated = {}
    /\ tpc = [i \in 1..Len(doms) |-> "idle"]
    /\ protocol = [i \in 1..Len(doms) |-> "https"]
    /\ pathIdx = [i \in 1..Len(doms) |-> 1]
    /\ found_urls = [i \in 1..Len(doms) |-> <<>>]
    /\ inflight = [i \in 1..Len(doms) |-> <<>>]
    /\ callreqs = [i \in 1..Len(doms) |-> <<>>]
    /\ attempts = [i \in 1..Len(doms) |-> <<>>]
    /\ sleeps = [i \in 1..Len(doms) |-> 0]
    /\ summary = <<>>

\* pool sizes tried by the dispatch specification
PoolSizes == {1, 2}

\* probe_all_domains(domains, max_workers) on a list of up to NumHosts distinct
\* hosts, the empty list included
Init ==
    \E n \in 0..NumHosts, w \in PoolSizes :
        InitTasks([i \in 1..n |-> i], w)

\* probe_all_domains([h]) on a single host, default pool size
InitProbe ==
    InitTasks(<<1>>, DefaultMaxWorkers)

----------------------------------------------------------------------------
(* probe_all_domains, lines 313-333 *)

Running == {i \in Tasks : fstate[i] = "running"}
Finished == {i \in Tasks : fstate[i] \in {"returned", "raised"}}

\* lines 321-324: executor.submit(self.probe_domain, domain), in list order
Submit ==
    /\ dpc = "submit"
    /\ submitted < Len(domains)
    /\ submitted' = submitted + 1
    /\ fstate' = [fstate EXCEPT ![submitted + 1] = "queued"]
    /\ dpc' = IF submitted + 1 = Len(domains) THEN "collect" ELSE "submit"
    /\ UNCHANGED <<domains, max_workers, yielded, consumptions, discovered_urls,
                   errors, propagated, summary>>
    /\ UNCHANGED proberVars

\* faulty variant of WorkerFree: a thread per submitted task
WorkerFreeAlways == TRUE

\* line 320: a free worker of ThreadPoolExecutor(max_workers) takes the oldest
\* queued work item
WorkerFree == Cardinality(Running) < max_workers

StartTask(i) ==
    /\ fstate[i] = "queued"
    /\ \A j \in Tasks : j < i => fstate[j] # "queued"
    /\ WorkerFree
    /\ fstate' = [fstate EXCEPT ![i] = "running"]
    /\ tpc' = [tpc EXCEPT ![i] = "check"]
    /\ UNCHANGED <<domains, max_workers, summary>>
    /\ UNCHANGED dispatcherVars
    /\ UNCHANGED <<protocol, pathIdx, found_urls, inflight, callreqs, attempts,
                   sleeps>>

\* lines 328-333: the body of the as_completed loop for the future of task i.
\* future.result() returns the list of a task that returned, and the list is
\* appended (an empty list changes nothing).  It raises again the exception of
\* a task that raised: an Exception is caught at line 332 and reported by the
\* print of line 333; an exception that is not an Exception (SystemExit, say)
\* is not caught, and the print of line 333 may itself raise (its text holds
\* a character that sys.stdout may be unable to encode): either way the
\* exception leaves the loop and, once the pool is shut down, the function.
Collect(i) ==
    IF fstate[i] = "returned"
    THEN /\ discovered_urls' = discovered_urls \o found_urls[i]
         /\ UNCHANGED <<errors, propagated, dpc>>
    ELSE \/ /\ errors' = errors \cup {i}
            /\ UNCHANGED <<discovered_urls, propagated, dpc>>
         \/ /\ propagated' = propagated \cup {i}
            /\ dpc' = "crashed"
            /\ UNCHANGED <<discovered_urls, errors>>

\* line 326: as_completed yields each finished future once
Consume(i) ==
    /\ dpc = "collect"
    /\ i \in Finished
    /\ i \notin yielded
    /\ yielded' = yielded \cup {i}
    /\ consumptions' = [consumptions EXCEPT ![i] = @ + 1]
    /\ Collect(i)
    /\ UNCHANGED <<domains, max_workers, submitted, fstate, summary>>
    /\ UNCHANGED proberVars

\* line 320: the with block ends, after the loop of line 326 is exhausted or
\* with the exception that left it; either way shutdown(wait=True) lets every
\* submitted task finish first.  Then the function returns, or raises.
Exit ==
    /\ \/ dpc = "collect" /\ yielded = Tasks
       \/ dpc = "crashed"
    /\ Finished = Tasks
    /\ dpc' = IF dpc = "collect" THEN "exited" ELSE "failed"
    /\ UNCHANGED <<domains, max_workers, submitted, fstate, yielded, consumptions,
                   discovered_urls, errors, propagated, summary>>
    /\ UNCHANGED proberVars

----------------------------------------------------------------------------
(* probe_domain, lines 281-311, run by the worker of task i *)

\* lines 290-291 and 240: check_url is called on the URL of the pass and the
\* path, and its requests.get call begins
RequestsGet(i) ==
    /\ fstate[i] = "running"
    /\ tpc[i] = "check"
    /\ inflight' = [inflight EXCEPT ![i] =
           Append(@, urljoin(protocol[i], domains[i], pathIdx[i]))]
    /\ tpc' = [tpc EXCEPT ![i] = "request"]
    /\ UNCHANGED <<domains, max_workers, fstate, summary, protocol, pathIdx,
                   found_urls, callreqs, attempts, sleeps>>
    /\ UNCHANGED dispatcherVars

\* lines 240-266 and 293-298: the requests.get call of task i ends with an
\* outcome of Outs.  Either check_url goes on with the http URL (line 263),
\* whose requests.get begins, or check_url returns and the loop body records
\* the result and decides between the break of line 298 and the sleep.
CheckUrl(i, Outs) ==
    /\ fstate[i] = "running"
    /\ tpc[i] = "request"
    /\ \E o \in Outs :
        LET url == Head(inflight[i])
            c == check_url(url, o)
            reqs == Append(callreqs[i], [url |-> url, outcome |-> o])
        IN  IF c.retry # <<>>
            THEN /\ inflight' = [inflight EXCEPT ![i] = Tail(@) \o c.retry]
                 /\ callreqs' = [callreqs EXCEPT ![i] = reqs]
                 /\ UNCHANGED <<attempts, found_urls, tpc>>
            ELSE /\ inflight' = [inflight EXCEPT ![i] = Tail(@)]
                 /\ callreqs' = [callreqs EXCEPT ![i] = <<>>]
                 /\ attempts' = [attempts EXCEPT ![i] =
                        Append(@, [protocol |-> protocol[i], path |-> pathIdx[i],
                                   result |-> c.result, requests |-> reqs])]
                 /\ found_urls' = [found_urls EXCEPT ![i] =
                        IF Recordable(c.result) THEN @ \o c.result ELSE @]
                 /\ tpc' = [tpc EXCEPT ![i] =
                        IF Recordable(c.result) /\ EarlyExit(protocol[i], c.result)
                        THEN "passend" ELSE "sleep"]
    /\ UNCHANGED <<domains, max_workers, fstate, summary, protocol, pathIdx, sleeps>>
    /\ UNCHANGED dispatcherVars

\* faulty variant of Sleep: the loop advances without time.sleep
SleepMissing(i) ==
    /\ fstate[i] = "running"
    /\ tpc[i] = "sleep"
    /\ IF pathIdx[i] < NumPaths
       THEN /\ pathIdx' = [pathIdx EXCEPT ![i] = @ + 1]
            /\ tpc' = [tpc EXCEPT ![i] = "check"]
       ELSE /\ tpc' = [tpc EXCEPT ![i] = "passend"]
            /\ UNCHANGED pathIdx
    /\ UNCHANGED <<domains, max_workers, fstate, summary, protocol, found_urls,
                   inflight, callreqs, attempts, sleeps>>
    /\ UNCHANGED dispatcherVars

\* line 300 and the advance of the loop of line 289
Sleep(i) ==
    /\ fstate[i] = "running"
    /\ tpc[i] = "sleep"
    /\ sleeps' = [sleeps EXCEPT ![i] = @ + 1]
    /\ IF pathIdx[i] < NumPaths
       THEN /\ pathIdx' = [pathIdx EXCEPT ![i] = @ + 1]
            /\ tpc' = [tpc EXCEPT ![i] = "check"]
       ELSE /\ tpc' = [tpc EXCEPT ![i] = "passend"]
            /\ UNCHANGED pathIdx
    /\ UNCHANGED <<domains, max_workers, fstate, summary, protocol, found_urls,
                   inflight, callreqs, attempts>>
    /\ UNCHANGED dispatcherVars

\* lines 303 and 286: the pass that ended is the last one
LastPass(i) ==
    SkipHttp(found_urls[i], protocol[i]) \/ protocol[i] = "http"

\* faulty variant of PassEnd: the HTTP pass goes on from the last path index
\* instead of starting the path list again
PassEndNoRestart(i) ==
    /\ fstate[i] = "running"
    /\ tpc[i] = "passend"
    /\ IF LastPass(i)
       THEN /\ fstate' = [fstate EXCEPT ![i] = "returned"]
            /\ tpc' = [tpc EXCEPT ![i] = "done"]
            /\ UNCHANGED <<protocol, pathIdx>>
       ELSE /\ protocol' = [protocol EXCEPT ![i] = "http"]
            /\ tpc' = [tpc EXCEPT ![i] = "check"]
            /\ UNCHANGED <<fstate, pathIdx>>
    /\ UNCHANGED <<domains, max_workers, summary, found_urls, inflight, callreqs,
                   attempts, sleeps>>
    /\ UNCHANGED dispatcherVars

\* lines 303-311 and the advance of the loop of line 286: after a pass, either
\* start the HTTP pass or return found_urls
PassEnd(i) ==
    /\ fstate[i] = "running"
    /\ tpc[i] = "passend"
    /\ IF LastPass(i)
       THEN /\ fstate' = [fstate EXCEPT ![i] = "returned"]
            /\ tpc' = [tpc EXCEPT ![i] = "done"]
            /\ UNCHANGED <<protocol, pathIdx>>
       ELSE /\ protocol' = [protocol EXCEPT ![i] = "http"]
            /\ pathIdx' = [pathIdx EXCEPT ![i] = 1]
            /\ tpc' = [tpc EXCEPT ![i] = "check"]
            /\ UNCHANGED fstate
    /\ UNCHANGED <<domains, max_workers, summary, found_urls, inflight, callreqs,
                   attempts, sleeps>>
    /\ UNCHANGED dispatcherVars

\* an exception leaves probe_domain: one raised by urljoin (line 290), one
\* raised by requests.get that check_url does not catch (not an Exception), or
\* one raised by the print of line 307 or 309.  The request in progress, if
\* any, is over, and the future holds the exception (line 329 raises it again
\* in the dispatcher).
TaskRaise(i) ==
    /\ fstate[i] = "running"
    /\ \/ tpc[i] \in {"check", "request"}
       \/ tpc[i] = "passend" /\ LastPass(i)
    /\ fstate' = [fstate EXCEPT ![i] = "raised"]
    /\ tpc' = [tpc EXCEPT ![i] = "done"]
    /\ inflight' = [inflight EXCEPT ![i] = <<>>]
    /\ callreqs' = [callreqs EXCEPT ![i] = <<>>]
    /\ UNCHANGED <<domains, max_workers, summary>>
    /\ UNCHANGED <<protocol, pathIdx, found_urls, attempts, sleeps>>
    /\ UNCHANGED dispatcherVars

----------------------------------------------------------------------------
(* generate_summary_report, lines 369-390 *)

\* faulty variant of CountKey: a key seen again starts over at 1
CountKeyReset(d, k) ==
    [x \in DOMAIN d \cup {k} |-> IF x = k THEN 1 ELSE d[x]]

\* lines 383-385 and 388-390: if key not in d: d[key] = 0; d[key] += 1
CountKey(d, k) ==
    IF k \in DOMAIN d
    THEN [d EXCEPT ![k] = @ + 1]
    ELSE [x \in DOMAIN d \cup {k} |-> IF x = k THEN 0 + 1 ELSE d[x]]

\* the loop of line 378 over the first n results, from the empty dicts of 375-376
RECURSIVE SummaryLoop(_, _)
SummaryLoop(urls, n) ==
    IF n = 0
    THEN [host_counts |-> <<>>, status_counts |-> <<>>]
    ELSE LET m == SummaryLoop(urls, n - 1)
         IN  [host_counts |-> CountKey(m.host_counts, urls[n].domain),
              status_counts |-> CountKey(m.status_counts, urls[n].status_code)]

\* lines 371-390: nothing is built for an empty collection
generate_summary_report(urls) ==
    IF urls = <<>> THEN <<>> ELSE <<SummaryLoop(urls, Len(urls))>>

GenerateSummaryReport ==
    /\ dpc = "exited"
    /\ dpc' = "reported"
    /\ summary' = generate_summary_report(discovered_urls)
    /\ UNCHANGED <<domains, max_workers, submitted, fstate, yielded, consumptions,
                   discovered_urls, errors, propagated>>
    /\ UNCHANGED proberVars

\* the Probe Results a result collection is drawn from
SummaryResults ==
    {ProbeResult(urljoin(sch, 1, 1), Response(s, d)) :
        sch \in {"https", "http"}, s \in {200, 404}, d \in {1, RedirectHost}}

SeqsUpTo(S, n) == UNION {[1..k -> S] : k \in 0..n}

\* self.discovered_urls holds any collection of at most MaxResults results
InitSummary ==
    /\ domains = <<1>>
    /\ max_workers = DefaultMaxWorkers
    /\ dpc = "exited"
    /\ submitted = 1
    /\ fstate = <<"returned">>
    /\ yielded = {1}
    /\ consumptions = <<1>>
    /\ discovered_urls \in SeqsUpTo(SummaryResults, MaxResults)
    /\ errors = {}
    /\ propagated = {}
    /\ tpc = <<"done">>
    /\ protocol = <<"https">>
    /\ pathIdx = <<1>>
    /\ found_urls = <<discovered_urls>>
    /\ inflight = <<<<>>>>
    /\ callreqs = <<<<>>>>
    /\ attempts = <<<<>>>>
    /\ sleeps = <<0>>
    /\ summary = <<>>

----------------------------------------------------------------------------
(* Specifications *)

StartTasks == \E i \in Tasks : StartTask(i)
Consumes == \E i \in Tasks : Consume(i)
Sleeps == \E i \in Tasks : Sleep(i)
PassEnds == \E i \in Tasks : PassEnd(i)
TaskRaises == \E i \in Tasks : TaskRaise(i)
RequestsGets == \E i \in Tasks : RequestsGet(i)
CheckUrls == \E i \in Tasks : CheckUrl(i, CoarseOutcomes(domains[i]))
CheckUrlsAll == \E i \in Tasks : CheckUrl(i, AllOutcomes(domains[i]))

Next ==
    \/ Submit
    \/ StartTasks
    \/ RequestsGets
    \/ CheckUrls
    \/ Sleeps
    \/ PassEnds
    \/ TaskRaises
    \/ Consumes
    \/ Exit

NextProbe ==
    \/ Submit
    \/ StartTasks
    \/ RequestsGets
    \/ CheckUrlsAll
    \/ Sleeps
    \/ PassEnds
    \/ TaskRaises
    \/ Consumes
    \/ Exit

\* the dispatcher over every list of up to NumHosts hosts
Spec == Init /\ [][Next]_vars

\* the dispatcher with every thread scheduled again and again and every
\* request ending (timeout=10): no enabled step is put off forever
LiveSpec == Spec /\ WF_vars(Next)

\* one host, every request outcome
SpecProbe == InitProbe /\ [][NextProbe]_vars

NextSummary == GenerateSummaryReport

\* generate_summary_report on every bounded result collection
SpecSummary == InitSummary /\ [][NextSummary]_vars

----------------------------------------------------------------------------
(* Properties of probe_domain and check_url, checked under SpecProbe *)

HttpsPaths(i) == SelectSeq(attempts[i], LAMBDA a : a.protocol = "https")
HttpPaths(i) == SelectSeq(attempts[i], LAMBDA a : a.protocol = "http")
AllPathsInOrder(as) == Len(as) = NumPaths /\ \A k \in 1..NumPaths : as[k].path = k
Is200(a) == a.result # <<>> /\ a.result[1].status_code = 200
IsRecorded(a) == a.result # <<>> /\ a.result[1].status_code < 500
ResultsOfHost(h) == SelectSeq(discovered_urls, LAMBDA r : r.url.host = h)

\* C1: an HTTPS-pass attempt that returned a status-200 result is the last
\* attempt probe_domain makes for the host: no later HTTPS path is attempted
\* and the HTTP pass is never entered.
C1_EarlyExitOn200 ==
    \A i \in Tasks : \A k \in DOMAIN attempts[i] :
        (attempts[i][k].protocol = "https" /\ Is200(attempts[i][k]))
            => /\ k = Len(attempts[i])
               /\ protocol[i] = "https"
               /\ HttpPaths(i) = <<>>

\* a probe returned after a 200 on the first HTTPS path, with paths left untried
C1_Witness ==
    \E i \in Tasks :
        /\ fstate[i] = "returned"
        /\ Len(attempts[i]) = 1
        /\ NumPaths > 1
        /\ attempts[i][1].protocol = "https"
        /\ Is200(attempts[i][1])

\* C2: every element of found_urls, at every moment and so in the returned
\* collection, has status code below 500, in both passes and also for results
\* that came from the TLS-to-HTTP fallback.
C2_NoServerErrorRecorded ==
    \A i \in Tasks : \A k \in DOMAIN found_urls[i] :
        found_urls[i][k].status_code < 500

\* a probe returned after check_url gave it a status-500 result through the
\* fallback in the HTTPS pass and another status-500 result in the HTTP pass
C2_Witness ==
    \E i \in Tasks :
        /\ fstate[i] = "returned"
        /\ \E k \in DOMAIN attempts[i] :
              /\ attempts[i][k].protocol = "https"
              /\ Len(attempts[i][k].requests) = 2
              /\ attempts[i][k].result # <<>>
              /\ attempts[i][k].result[1].status_code >= 500
        /\ \E k \in DOMAIN attempts[i] :
              /\ attempts[i][k].protocol = "http"
              /\ attempts[i][k].result # <<>>
              /\ attempts[i][k].result[1].status_code >= 500
        /\ found_urls[i] # <<>>

\* C3: the HTTP pass is entered exactly when the HTTPS pass ended with nothing
\* recorded.  Once in the HTTP pass, every HTTPS path was attempted and none
\* was recorded; a probe that returned from the HTTPS pass recorded something
\* and made no HTTP attempt; a probe that returned from the HTTP pass
\* attempted every path under HTTP.
C3_ProtocolShortCircuit ==
    \A i \in Tasks :
        /\ (protocol[i] = "http" \/ HttpPaths(i) # <<>>)
              => /\ AllPathsInOrder(HttpsPaths(i))
                 /\ \A k \in DOMAIN attempts[i] :
                       attempts[i][k].protocol = "https" => ~IsRecorded(attempts[i][k])
        /\ (fstate[i] = "returned" /\ protocol[i] = "https")
              => (found_urls[i] # <<>> /\ HttpPaths(i) = <<>>)
        /\ (fstate[i] = "returned" /\ protocol[i] = "http")
              => AllPathsInOrder(HttpPaths(i))

\* a probe returned without an HTTP pass after an HTTPS pass that recorded
\* only non-200 results
C3_Witness ==
    \E i \in Tasks :
        /\ fstate[i] = "returned"
        /\ protocol[i] = "https"
        /\ Len(attempts[i]) = NumPaths
        /\ found_urls[i] # <<>>
        /\ \A k \in DOMAIN found_urls[i] : found_urls[i][k].status_code = 404

\* C4: a check_url call on an https URL whose request fails with a TLS error
\* requests the same host and path once more under http and returns what
\* that request gives (None if it fails in any way); no call makes more than
\* two requests.  So a probe whose first HTTPS attempt got a TLS error and
\* then a 200 from the http URL returns exactly one result, with an http URL.
C4_TlsFallback ==
    \A i \in Tasks :
        /\ \A k \in DOMAIN attempts[i] :
              LET a == attempts[i][k]
                  first == a.requests[1]
              IN  /\ Len(a.requests) \in {1, 2}
                  /\ first.url = urljoin(a.protocol, domains[i], a.path)
                  /\ IF first.outcome.kind = "SSLError" /\ first.url.scheme = "https"
                     THEN /\ Len(a.requests) = 2
                          /\ a.requests[2].url =
                                 [scheme |-> "http", host |-> first.url.host,
                                  path |-> first.url.path]
                          /\ a.result =
                                 IF a.requests[2].outcome.kind = "response"
                                 THEN <<[url |-> a.requests[2].url,
                                         status_code |-> a.requests[2].outcome.status_code,
                                         domain |-> a.requests[2].outcome.netloc]>>
                                 ELSE <<>>
                     ELSE Len(a.requests) = 1
        /\ (/\ fstate[i] = "returned"
            /\ attempts[i][1].requests[1].outcome.kind = "SSLError"
            /\ Len(attempts[i][1].requests) = 2
            /\ attempts[i][1].requests[2].outcome.kind = "response"
            /\ attempts[i][1].requests[2].outcome.status_code = 200)
              => /\ Len(found_urls[i]) = 1
                 /\ found_urls[i][1].url.scheme = "http"
                 /\ found_urls[i][1].status_code = 200

\* the scenario happened: TLS error on the first HTTPS attempt, 200 from the
\* http URL, and the probe returned
C4_Witness ==
    \E i \in Tasks :
        /\ fstate[i] = "returned"
        /\ attempts[i][1].requests[1].outcome.kind = "SSLError"
        /\ Len(attempts[i][1].requests) = 2
        /\ attempts[i][1].requests[2].outcome.kind = "response"
        /\ attempts[i][1].requests[2].outcome.status_code = 200

\* every path was attempted under HTTPS and then under HTTP, and every one of
\* these check_url calls gave None
AllAbsent(i) ==
    /\ Len(attempts[i]) = 2 * NumPaths
    /\ \A k \in DOMAIN attempts[i] : attempts[i][k].result = <<>>

\* C9: a probe whose check_url calls all gave None attempts every path under
\* HTTPS and then every path under HTTP and makes no other attempt; once all
\* of them gave None it does not raise, and when it has ended it has returned
\* the empty collection; the dispatcher neither adds a result for the host
\* nor reports an error for it, and no exception leaves probe_all_domains.
C9_UnreachableHost ==
    \A i \in Tasks :
        /\ (\A k \in DOMAIN attempts[i] : attempts[i][k].result = <<>>)
              => /\ Len(attempts[i]) <= 2 * NumPaths
                 /\ \A k \in DOMAIN attempts[i] :
                       /\ attempts[i][k].protocol = IF k <= NumPaths THEN "https" ELSE "http"
                       /\ attempts[i][k].path = IF k <= NumPaths THEN k ELSE k - NumPaths
                 /\ fstate[i] = "returned" => Len(attempts[i]) = 2 * NumPaths
        /\ AllAbsent(i)
              => /\ fstate[i] # "raised"
                 /\ found_urls[i] = <<>>
                 /\ ResultsOfHost(domains[i]) = <<>>
                 /\ i \notin errors
                 /\ i \notin propagated
                 /\ dpc \notin {"crashed", "failed"}

\* what the code does keep: a probe that returned after every check_url call
\* gave None attempted every path under HTTPS and then every path under HTTP
\* and returned the empty collection, and the dispatcher added nothing,
\* reported nothing and raised nothing for it
UnreachableHostReturned ==
    \A i \in Tasks :
        (fstate[i] = "returned" /\ \A k \in DOMAIN attempts[i] : attempts[i][k].result = <<>>)
            => /\ AllAbsent(i)
               /\ \A k \in 1..NumPaths :
                     /\ attempts[i][k].protocol = "https"
                     /\ attempts[i][k].path = k
                     /\ attempts[i][NumPaths + k].protocol = "http"
                     /\ attempts[i][NumPaths + k].path = k
               /\ found_urls[i] = <<>>
               /\ ResultsOfHost(domains[i]) = <<>>
               /\ i \notin errors
               /\ i \notin propagated
               /\ dpc \notin {"crashed", "failed"}

----------------------------------------------------------------------------
(* Properties of probe_all_domains, checked under Spec and LiveSpec *)

Count(seq, r) == Cardinality({k \in DOMAIN seq : seq[k] = r})
Range(seq) == {seq[k] : k \in DOMAIN seq}
Merged == {i \in Tasks : i \in yielded /\ fstate[i] = "returned"}

RECURSIVE SumCount(_, _)
SumCount(S, r) ==
    IF S = {} THEN 0
    ELSE LET i == CHOOSE x \in S : TRUE
         IN  Count(found_urls[i], r) + SumCount(S \ {i}, r)

DispatchEnded == dpc \in {"exited", "failed"}

\* C5: a task that raised contributes no result and has its error reported
\* once consumed; no exception leaves probe_all_domains; and when the
\* dispatch ends every task has finished and been consumed, each task that
\* returned having exactly its results in discovered_urls.
C5_FailureIsolation ==
    /\ propagated = {}
    /\ dpc \notin {"crashed", "failed"}
    /\ \A i \in Tasks :
          fstate[i] = "raised"
              => /\ ResultsOfHost(domains[i]) = <<>>
                 /\ (i \in yielded => i \in errors)
    /\ DispatchEnded
          => \A j \in Tasks :
                /\ fstate[j] \in {"returned", "raised"}
                /\ j \in yielded
                /\ fstate[j] = "returned" => ResultsOfHost(domains[j]) = found_urls[j]

\* what the code does keep when a task raises: the task contributes no
\* result, every submitted task still runs to its end before the function is
\* left, and what was merged before stays merged
RaiseKeepsOtherTasksRunning ==
    /\ \A i \in Tasks : fstate[i] = "raised" => ResultsOfHost(domains[i]) = <<>>
    /\ DispatchEnded => \A j \in Tasks : fstate[j] \in {"returned", "raised"}
    /\ \A j \in Tasks :
          (j \in yielded /\ fstate[j] = "returned")
              => ResultsOfHost(domains[j]) = found_urls[j]

AllConsumedOnce ==
    /\ submitted = Len(domains)
    /\ \A i \in Tasks :
          /\ fstate[i] \in {"returned", "raised"}
          /\ consumptions[i] = 1
          /\ fstate[i] = "raised" => i \in errors
          /\ fstate[i] = "returned" => ResultsOfHost(domains[i]) = found_urls[i]

\* C6: one task is submitted per list entry, all of them before any
\* completion is consumed, no task is consumed twice, and when the dispatch
\* has ended every task has finished and been consumed exactly once, its
\* results merged or its error reported.
C6_NoHostDropped ==
    /\ \A i \in Tasks : (fstate[i] # "unsubmitted") <=> (i <= submitted)
    /\ yielded # {} => submitted = Len(domains)
    /\ \A i \in Tasks : consumptions[i] <= 1
    /\ DispatchEnded => AllConsumedOnce

\* what the code does keep: the submissions are one per list entry and all
\* made before the first completion is consumed, and no task is consumed twice
SubmittedOnceUpFront ==
    /\ \A i \in Tasks : (fstate[i] # "unsubmitted") <=> (i <= submitted)
    /\ yielded # {} => submitted = Len(domains)
    /\ \A i \in Tasks : consumptions[i] <= 1

\* under LiveSpec every dispatch ends, by returning or by raising, the
\* dispatch over the empty list included
DispatchEnds == <>[]DispatchEnded

\* C7: at every moment discovered_urls holds, as a multiset, exactly the
\* results returned by the tasks consumed so far that did not raise (worker
\* steps never change it, nothing is duplicated), and once the dispatch has
\* ended these are all the tasks that did not raise: no result is lost,
\* whatever the order of completion.
C7_SafeAccumulation ==
    /\ \A r \in Range(discovered_urls) \cup UNION {Range(found_urls[i]) : i \in Tasks} :
          Count(discovered_urls, r) = SumCount(Merged, r)
    /\ DispatchEnded => Merged = {i \in Tasks : fstate[i] = "returned"}

\* what the code does keep: discovered_urls is at every moment the multiset
\* of the results of the tasks merged so far
MergedOnceEach ==
    \A r \in Range(discovered_urls) \cup UNION {Range(found_urls[i]) : i \in Tasks} :
        Count(discovered_urls, r) = SumCount(Merged, r)

\* C8: at most max_workers probes are running at any moment.
C8_BoundedPool ==
    Cardinality(Running) <= max_workers

\* every worker is busy while a submitted host waits in the queue
C8_Witness ==
    /\ Cardinality(Running) = max_workers
    /\ \E i \in Tasks : fstate[i] = "queued"

----------------------------------------------------------------------------
(* Properties of generate_summary_report, checked under SpecSummary *)

HostKeys(urls) == {urls[k].domain : k \in DOMAIN urls}
StatusKeys(urls) == {urls[k].status_code : k \in DOMAIN urls}

ExpectedSummary(urls) ==
    [host_counts |->
         [h \in HostKeys(urls) |->
              Cardinality({k \in DOMAIN urls : urls[k].domain = h})],
     status_counts |->
         [c \in StatusKeys(urls) |->
              Cardinality({k \in DOMAIN urls : urls[k].status_code = c})]]

RECURSIVE SumValues(_, _)
SumValues(f, S) ==
    IF S = {} THEN 0
    ELSE LET x == CHOOSE y \in S : TRUE IN f[x] + SumValues(f, S \ {x})

\* C10 as stated: for every result collection, the empty one included, the
\* report yields the two mappings (both empty for the empty collection).
C10_SummaryOfEveryCollection ==
    dpc = "reported" => summary = <<ExpectedSummary(discovered_urls)>>

\* C10, amended: for every non-empty collection the report yields host_counts
\* keyed by the resolved host and status_counts keyed by the status code,
\* each key mapped to the number of results that have it, with no other key
\* and counts that sum to the number of results; for the empty collection it
\* yields nothing.
C10_SummaryOfNonEmptyCollection ==
    dpc = "reported" =>
        IF discovered_urls = <<>>
        THEN summary = <<>>
        ELSE /\ summary = <<ExpectedSummary(discovered_urls)>>
             /\ DOMAIN summary[1].host_counts = HostKeys(discovered_urls)
             /\ DOMAIN summary[1].status_counts = StatusKeys(discovered_urls)
             /\ SumValues(summary[1].host_counts, HostKeys(discovered_urls))
                    = Len(discovered_urls)
             /\ SumValues(summary[1].status_counts, StatusKeys(discovered_urls))
                    = Len(discovered_urls)
             /\ StatusKeys(discovered_urls) = {200}
                    => summary[1].status_counts[200] = Len(discovered_urls)

\* a report over several results that share a status, one of them resolved
\* to another host than the one dispatched
C10_Witness ==
    /\ dpc = "reported"
    /\ Len(discovered_urls) >= 2
    /\ StatusKeys(discovered_urls) = {200}
    /\ \E k \in DOMAIN discovered_urls :
          discovered_urls[k].domain # discovered_urls[k].url.host
    /\ summary # <<>>
    /\ summary[1].status_counts[200] = Len(discovered_urls)

----------------------------------------------------------------------------
(* Pacing, retries and order inside probe_domain, checked under SpecProbe *)

AboutToAttempt(i) == fstate[i] = "running" /\ tpc[i] = "check"
LastAttempt(i) == attempts[i][Len(attempts[i])]
EarlyExited(i) ==
    /\ attempts[i] # <<>>
    /\ LastAttempt(i).protocol = "https"
    /\ Is200(LastAttempt(i))

\* C11 as stated: whenever probe_domain is about to issue an attempt or has
\* returned, every attempt made so far was followed by a pacing sleep, the
\* attempt that triggered the HTTPS status-200 early exit included.
C11_SleepAfterEveryAttempt ==
    \A i \in Tasks :
        (AboutToAttempt(i) \/ fstate[i] = "returned")
            => sleeps[i] = Len(attempts[i])

\* C11, amended: every attempt is followed by the pacing sleep before the
\* next attempt or the return, whatever it gave, except the attempt that
\* triggers the HTTPS status-200 early exit: that one is followed by the
\* return with no sleep.
C11_SleepAfterEveryAttemptButEarlyExit ==
    \A i \in Tasks :
        /\ AboutToAttempt(i) => sleeps[i] = Len(attempts[i])
        /\ fstate[i] = "returned"
              => sleeps[i] = IF EarlyExited(i)
                             THEN Len(attempts[i]) - 1
                             ELSE Len(attempts[i])

\* a probe slept after attempts that recorded nothing (None or status >= 500),
\* then returned on an HTTPS 200 on the last path without sleeping
C11_Witness ==
    \E i \in Tasks :
        /\ fstate[i] = "returned"
        /\ EarlyExited(i)
        /\ Len(attempts[i]) = NumPaths
        /\ sleeps[i] = NumPaths - 1
        /\ \E k \in DOMAIN attempts[i] : ~IsRecorded(attempts[i][k])

\* the requests.get calls of the check_url calls of task i that returned:
\* <<k, j>> is request j of attempt k
RequestIds(i) ==
    UNION {{<<k, j>> : j \in DOMAIN attempts[i][k].requests} : k \in DOMAIN attempts[i]}
RequestUrl(i, id) == attempts[i][id[1]].requests[id[2]].url
TimesRequested(i, u) == Cardinality({id \in RequestIds(i) : RequestUrl(i, id) = u})

\* C12: during one probe_domain run no URL is requested twice: for every
\* path, https://H/P is requested at most once and http://H/P at most once,
\* whatever the responses.
C12_EachUrlRequestedOnce ==
    \A i \in Tasks : \A id \in RequestIds(i) :
        TimesRequested(i, RequestUrl(i, id)) <= 1

\* what the code does keep: an https URL is requested at most once, an http
\* URL at most twice (once as the fallback of check_url, once in the HTTP pass)
RequestedAtMostTwice ==
    \A i \in Tasks : \A id \in RequestIds(i) :
        TimesRequested(i, RequestUrl(i, id))
            <= IF RequestUrl(i, id).scheme = "https" THEN 1 ELSE 2

\* the results of the attempts as that were recorded, in the order of the attempts
RECURSIVE RecordedResults(_)
RecordedResults(as) ==
    IF as = <<>> THEN <<>>
    ELSE RecordedResults(SubSeq(as, 1, Len(as) - 1))
             \o (IF IsRecorded(as[Len(as)]) THEN as[Len(as)].result ELSE <<>>)

\* C13: one probe_domain call never has two requests outstanding, and has one
\* outstanding exactly while it is inside a check_url call; its attempts are
\* ordered: every HTTPS-pass attempt comes before every HTTP-pass attempt,
\* inside each pass the paths are attempted in list order from the first one
\* on, and found_urls holds the recorded results in the order of the attempts
\* that produced them.
C13_SequentialOrderedAttempts ==
    \A i \in Tasks :
        /\ \A k1, k2 \in DOMAIN attempts[i] :
              (k1 < k2 /\ attempts[i][k2].protocol = "https")
                  => attempts[i][k1].protocol = "https"
        /\ \A k \in DOMAIN HttpsPaths(i) : HttpsPaths(i)[k].path = k
        /\ \A k \in DOMAIN HttpPaths(i) : HttpPaths(i)[k].path = k
        /\ found_urls[i] = RecordedResults(attempts[i])
        /\ Len(inflight[i]) <= 1
        /\ inflight[i] # <<>> <=> (fstate[i] = "running" /\ tpc[i] = "request")
        /\ fstate[i] = "returned"
              => /\ Len(found_urls[i]) <= NumPaths
                 /\ \A k1, k2 \in DOMAIN found_urls[i] :
                       k1 < k2 => found_urls[i][k1].url.path < found_urls[i][k2].url.path

\* a probe returned from the HTTP pass with a result on every path, after an
\* HTTPS pass in which a TLS fallback took place
C13_Witness ==
    \E i \in Tasks :
        /\ fstate[i] = "returned"
        /\ protocol[i] = "http"
        /\ Len(attempts[i]) = 2 * NumPaths
        /\ Len(found_urls[i]) = NumPaths
        /\ \E k \in DOMAIN attempts[i] : Len(attempts[i][k].requests) = 2

\* the attempts of task i whose result was recorded, in order: attempt k of
\* this list produced found_urls[i][k]
RecordedAttempts(i) == SelectSeq(attempts[i], IsRecorded)

\* C14: the results probe_domain holds, and so the collection it returns,
\* were all recorded in the same pass, no two of them have the same source
\* URL, and when they come from the HTTPS pass at most one of them has status
\* 200 and it is the last one.
C14_OnePassNoRepeat ==
    \A i \in Tasks :
        LET rec == RecordedAttempts(i) IN
        /\ Len(rec) = Len(found_urls[i])
        /\ \A k \in DOMAIN rec : <<found_urls[i][k]>> = rec[k].result
        /\ \A k1, k2 \in DOMAIN rec : rec[k1].protocol = rec[k2].protocol
        /\ \A k1, k2 \in DOMAIN found_urls[i] :
              found_urls[i][k1].url = found_urls[i][k2].url => k1 = k2
        /\ \A k \in DOMAIN rec :
              (rec[k].protocol = "https" /\ found_urls[i][k].status_code = 200)
                  => k = Len(found_urls[i])

\* a probe returned from the HTTPS pass with a non-200 result that came
\* through the TLS fallback (http URL) followed by a 200 with an https URL
C14_Witness ==
    \E i \in Tasks :
        /\ fstate[i] = "returned"
        /\ protocol[i] = "https"
        /\ Len(found_urls[i]) >= 2
        /\ found_urls[i][1].url.scheme = "http"
        /\ found_urls[i][1].status_code = 404
        /\ found_urls[i][Len(found_urls[i])].url.scheme = "https"
        /\ found_urls[i][Len(found_urls[i])].status_code = 200

====
